---------------------------- MODULE Spec2Model ----------------------------
(***************************************************************************)
(* A model of paternoster.Paternoster (src/paternoster/paternoster.py):    *)
(* the declarative parameter pipeline  check_user -> become_user ->        *)
(* _build_argparser -> parse_args -> _prompt_for_missing ->                *)
(* _check_arg_dependencies -> execute -> sys.exit.                         *)
(*                                                                         *)
(* Python values are encoded as triples <<kind, number, text>> so that     *)
(* values of different Python types stay comparable.  A text is a sequence *)
(* of one-character strings.                                               *)
(***************************************************************************)
EXTENDS Integers, Sequences, FiniteSets, TLC

\* ------------------------------------------------------------------ bounds
MaxParams  == 2   \* declared parameters per script
MaxArgv    == 2   \* option occurrences on the command line
MaxRetries == 1   \* rejected (empty) inputs a user types in one run

\* ------------------------------------------------------------ Python values
None       == <<"None", 0, <<>>>>
IntV(n)    == <<"int", n, <<>>>>
StrV(t)    == <<"str", 0, t>>
BoolV(b)   == <<"bool", IF b THEN 1 ELSE 0, <<>>>>

\* Python truthiness (bool(v)), as used by `if x`, `and`, `or`, `not`.
Truthy(v) ==
  CASE v[1] = "None" -> FALSE
    [] v[1] = "int"  -> v[2] # 0
    [] v[1] = "bool" -> v[2] = 1
    [] v[1] = "str"  -> v[3] # <<>>

\* ------------------------------------------------------------------- texts
Whitespace == {" "}
Digits     == {"0", "7"}
DigitVal(c) == IF c = "0" THEN 0 ELSE 7

\* The raw texts a user types, at a prompt or as an option's value.
Texts == { <<>>, <<" ">>, <<"0">>, <<"7">>, <<" ", "7">> }

\* str.strip(): drop leading and trailing whitespace.
RECURSIVE LStrip(_)
LStrip(t) == IF t # <<>> /\ Head(t) \in Whitespace THEN LStrip(Tail(t)) ELSE t
RECURSIVE RStrip(_)
RStrip(t) ==
  IF t # <<>> /\ t[Len(t)] \in Whitespace THEN RStrip(SubSeq(t, 1, Len(t) - 1)) ELSE t
Strip(t) == RStrip(LStrip(t))

\* ------------------------------------------------------------------- types
\* Type descriptors a parameter may declare ('type' key; "absent" = no key).
TypeInt        == "int"
TypeStr        == "str"
TypeRestricted == "paternoster.types.restricted_str"
TypeUnknown    == "bogus"
TypeAbsent     == "absent"

\* _convert_type: the resolved type, or "raise" for an unknown descriptor.
\* type_params ("minlength0": restricted_str(minlength=0)) go to the constructor.
ConvertType(param) ==
  CASE param.type = TypeAbsent     -> "absent"
    [] param.type = TypeInt        -> "int"
    [] param.type = TypeStr        -> "str"
    [] param.type = TypeRestricted ->
         IF param.type_params = "minlength0" THEN "restricted0" ELSE "restricted"
    [] OTHER                       -> "raise"

\* int(text): Python accepts surrounding whitespace around a digit string.
RECURSIVE DigitsValue(_)
DigitsValue(t) ==
  IF t = <<>> THEN 0 ELSE 10 * DigitsValue(SubSeq(t, 1, Len(t) - 1)) + DigitVal(t[Len(t)])
IntOk(t) == Strip(t) # <<>> /\ \A i \in 1..Len(Strip(t)) : Strip(t)[i] \in Digits

\* restricted_str: a validated text; only the allowed characters, at least
\* minlength of them; the validated text itself is the value.
RestrictedOk(t, minlength) ==
  Len(t) >= minlength /\ \A i \in 1..Len(t) : t[i] \notin Whitespace

\* Whether the resolved type accepts the raw text, and the value it yields
\* (argparse calls type(text); a ValueError becomes a usage error).
TypeAccepts(rtype, t) ==
  CASE rtype = "int"         -> IntOk(t)
    [] rtype = "restricted"  -> RestrictedOk(t, 1)
    [] rtype = "restricted0" -> RestrictedOk(t, 0)
    [] OTHER                 -> TRUE
TypeValue(rtype, t) ==
  IF rtype = "int" THEN IntV(DigitsValue(Strip(t))) ELSE StrV(t)


\* -------------------------------------------------------------- parameters
\* One entry of self._parameters.  Absent dictionary keys are "absent"/FALSE.
\*   prompt, prompt_options.confirm : "absent" | "True" | "False" | "empty"
\*                                    (the text '') | "text" | "int" (1)
Names == <<"a", "b", "c">>
Ghost == "zz"         \* a depends_on target that no parameter declares

NoOptions ==
  [confirm |-> "absent", confirm_error |-> "absent",
   accept_empty |-> FALSE, no_echo |-> FALSE, strip |-> FALSE]

Base ==
  [positional |-> FALSE, required |-> FALSE, type |-> TypeRestricted,
   type_params |-> "default", action |-> "store", prompt |-> "absent",
   prompt_options |-> NoOptions, depends_on |-> "none"]

\* bool(x) and isinstance(x, (bool, six.string_types)) of a prompt/confirm value
KindTruthy(k)      == k \in {"True", "text", "int"}
KindIsBoolOrStr(k) == k \in {"True", "False", "empty", "text"}
KindIsStr(k)       == k \in {"empty", "text"}

action_whitelist == {"store_true", "store_false", "store_const", "append_const", "count"}

\* ------------------------------------------------------- _build_argparser
\* _check_type(argParams) after _convert_type: "ok" or the ValueError raised.
CheckTypeAccept(param) == "ok"
CheckType(param) ==
  LET action == param.action
      hasType == ConvertType(param) # "absent"
      is_str_type == ConvertType(param) \in {"absent", "str"}  \* .get('type', str)
  IN  IF ~hasType /\ action \notin action_whitelist
        THEN "ValueError:type_missing"
      ELSE IF is_str_type /\ action \notin action_whitelist
        THEN "ValueError:restricted_str"
      ELSE "ok"

\* argparse's add_argument rejects keyword arguments the action does not take.
AddArgument(param) ==
  IF param.action \in action_whitelist /\ ConvertType(param) # "absent"
    THEN "TypeError"
  ELSE IF param.positional /\ param.required THEN "TypeError"
  ELSE "ok"

\* One iteration of the loop over self._parameters: "ok" or how it fails.
RegisterNoPromptCheck(param) ==
  IF ConvertType(param) = "raise" THEN "Exception:unknown_type"
  ELSE IF CheckType(param) # "ok" THEN CheckType(param)
  ELSE AddArgument(param)
Register(param) ==
  IF ConvertType(param) = "raise" THEN "Exception:unknown_type"
  ELSE IF CheckType(param) # "ok" THEN CheckType(param)
  ELSE IF (param.required \/ param.positional) /\ KindTruthy(param.prompt)
    THEN "parser.error"
  ELSE AddArgument(param)

\* The loop: the first failing parameter decides; <<0, "ok">> if none fails.
RECURSIVE BuildFrom(_, _)
BuildFrom(params, i) ==
  IF i > Len(params) THEN <<0, "ok">>
  ELSE IF Register(params[i]) # "ok" THEN <<i, Register(params[i])>>
  ELSE BuildFrom(params, i + 1)
BuildArgparser(params) == BuildFrom(params, 1)

\* ---------------------------------------------------- parser.parse_args
\* argv is a sequence of option occurrences [opt |-> name, val |-> raw text];
\* "verbose" and "help" are the two options the parser adds itself.
ParamOf(params, name) == CHOOSE i \in 1..Len(params) : params[i].name = name
Declared(params) == { params[i].name : i \in 1..Len(params) }
Dests(params) == Declared(params) \cup {"verbose"}

Occurrences(argv, name) == { i \in 1..Len(argv) : argv[i].opt = name }
LastOccurrence(argv, name) ==
  CHOOSE i \in Occurrences(argv, name) : \A j \in Occurrences(argv, name) : j <= i
FirstOccurrence(argv, name) ==
  CHOOSE i \in Occurrences(argv, name) : \A j \in Occurrences(argv, name) : j >= i

\* Consuming one occurrence: "ok", "help" or "error" (a usage error).
Consume(params, argv, i) ==
  LET o == argv[i].opt IN
  IF o = "help" THEN "help"
  ELSE IF o = "verbose" THEN "ok"
  ELSE LET p == params[ParamOf(params, o)] IN
       IF p.action \in action_whitelist THEN "ok"
       ELSE IF p.positional /\ FirstOccurrence(argv, o) # i THEN "error"
       ELSE IF TypeAccepts(ConvertType(p), argv[i].val) THEN "ok" ELSE "error"

RECURSIVE ScanFrom(_, _, _)
ScanFrom(params, argv, i) ==
  IF i > Len(argv) THEN "ok"
  ELSE IF Consume(params, argv, i) # "ok" THEN Consume(params, argv, i)
  ELSE ScanFrom(params, argv, i + 1)

MissingRequired(params, argv) ==
  \E i \in 1..Len(params) :
     /\ params[i].required \/ params[i].positional
     /\ Occurrences(argv, params[i].name) = {}

\* The Namespace of a successful parse: defaults, overwritten by occurrences.
Namespace(params, argv) ==
  [d \in Dests(params) |->
     IF d = "verbose" THEN IntV(Cardinality(Occurrences(argv, "verbose")))
     ELSE LET p == params[ParamOf(params, d)] IN
          IF p.action \in action_whitelist
            THEN BoolV(Occurrences(argv, d) # {})
          ELSE IF Occurrences(argv, d) = {} THEN None
          ELSE TypeValue(ConvertType(p), argv[LastOccurrence(argv, d)].val)]

\* "ok" (with Namespace), "help" (exit 0) or "error" (parser.error, exit 2).
ParseOutcome(params, argv) ==
  IF ScanFrom(params, argv, 1) # "ok" THEN ScanFrom(params, argv, 1)
  ELSE IF MissingRequired(params, argv) THEN "error"
  ELSE "ok"


\* ------------------------------------------------------------------- state
VARIABLES
  parameters,       \* self._parameters
  check_user_cfg,   \* self._check_user   ("none" or a user name)
  become_user_cfg,  \* self._become_user  ("none" or a user name)
  success_msg,      \* self._success_msg  ("none" or a message)
  sudo_user,        \* self._sudo_user    ("none" or the user become_user returned)
  current_user,     \* the user the process runs as
  keepsOrder,       \* whether this interpreter's dict keeps insertion order
  script,           \* sys.argv[0], a path as a sequence of components
  pc,               \* position in auto()
  argv,             \* parse_args: the arguments it parses (sys.argv[1:])
  args,             \* parse_args: the Namespace parsed so far
  parsed_args,      \* self._parsed_args
  missing,          \* _prompt_for_missing: the selected parameters, in order
  cur,              \* index into missing of the parameter being prompted
  value,            \* get_input: the accepted (stripped) input awaiting confirmation
  retries,          \* parse_args: inputs the while loop of get_input rejected
  prompt_data,      \* _prompt_for_missing: (name, text) collected so far
  typed,            \* parse_args: the lines its prompts read from the user
  parses,           \* history: calls of parser.parse_args
  stdout, stderr,   \* what was printed
  runner_calls,     \* history: calls of self._runner.run
  runner_vars,      \* the variables handed to the runner
  runner_verbosity, \* the verbosity handed to the runner
  status,           \* what the runner returned
  exit_code,        \* the process's exit status (-1 while running)
  uncaught,         \* the exception that left auto() uncaught ("" if none)
  trace             \* history: the stages entered, in order

vars == <<parameters, check_user_cfg, become_user_cfg, success_msg, sudo_user,
          current_user, keepsOrder, script, pc, argv, args, parsed_args, missing, cur, value, retries,
          prompt_data, typed, parses, stdout, stderr, runner_calls, runner_vars,
          runner_verbosity, status, exit_code, uncaught, trace>>

config == <<parameters, check_user_cfg, become_user_cfg, success_msg, current_user,
           keepsOrder, script>>
parse_state == <<argv, args, parsed_args, parses>>
prompt_state == <<missing, cur, value, retries, prompt_data, typed>>
runner_state == <<runner_calls, runner_vars, runner_verbosity, status>>

NoArgs == [d \in {} |-> None]
Interrupt == <<"^C">>

\* -------------------------------------------------------------------- Init
\* The declarations a script author may write.  A script with one parameter
\* takes every combination of the keys _build_argparser and get_input read;
\* scripts with several parameters combine the core shapes below.
PromptKinds == {"absent", "True", "False", "empty", "text", "int"}

Declarations ==
  { [Base EXCEPT !.type = ty, !.action = ac, !.required = rq, !.positional = ps,
                 !.prompt = pr, !.depends_on = d] :
      ty \in {TypeAbsent, TypeInt, TypeStr, TypeRestricted, TypeUnknown},
      ac \in {"store", "store_true"}, rq \in BOOLEAN, ps \in BOOLEAN,
      pr \in PromptKinds, d \in {"none", "ghost"} }

PromptOptions ==
  { [confirm |-> cf, confirm_error |-> ce, accept_empty |-> ae,
     no_echo |-> ne, strip |-> st] :
      cf \in {"absent", "True", "text", "int"}, ce \in {"absent", "text"},
      ae \in BOOLEAN, ne \in BOOLEAN, st \in BOOLEAN }

Promptables ==
  { [Base EXCEPT !.type = ty, !.type_params = tp, !.prompt = pr, !.prompt_options = po] :
      ty \in {TypeInt, TypeRestricted}, tp \in {"default", "minlength0"},
      pr \in {"True", "text"}, po \in PromptOptions }

Opt(cf, ae, st) ==
  [NoOptions EXCEPT !.confirm = cf, !.accept_empty = ae, !.strip = st]

CoreTemplates ==
  { Base,
    [Base EXCEPT !.type = TypeAbsent, !.action = "store_true"],
    [Base EXCEPT !.type = TypeStr],
    [Base EXCEPT !.required = TRUE, !.prompt = "True"],
    [Base EXCEPT !.type = TypeInt, !.prompt = "True", !.depends_on = "next"],
    [Base EXCEPT !.prompt = "text", !.prompt_options = Opt("True", FALSE, FALSE)] }

PipelineTemplates ==
  { Base,
    [Base EXCEPT !.type = TypeStr],
    [Base EXCEPT !.type = TypeInt, !.depends_on = "next"] }

OrderTemplates ==
  { Base,
    [Base EXCEPT !.type = TypeInt, !.prompt = "True", !.depends_on = "next"] }

\* depends_on of the i-th of n parameters: "next" is the parameter declared
\* after it (the first one after the last), "ghost" a name nobody declares.
DependsOn(d, i, n) ==
  CASE d = "none"  -> "none"
    [] d = "ghost" -> Ghost
    [] d = "next"  -> Names[(i % n) + 1]

Named(t, i, n) ==
  [name |-> Names[i], positional |-> t.positional, required |-> t.required,
   type |-> t.type, type_params |-> t.type_params, action |-> t.action,
   prompt |-> t.prompt, prompt_options |-> t.prompt_options,
   depends_on |-> DependsOn(t.depends_on, i, n)]

Lists(templates, lo, hi) ==
  UNION { { [i \in 1..n |-> Named(ts[i], i, n)] : ts \in [1..n -> templates] } :
          n \in lo..hi }

ScriptPaths == { <<"mytool">>, <<"usr", "bin", "mytool">> }

Init ==
  /\ \/ /\ parameters \in Lists(Declarations \cup Promptables, 1, 1)
                          \cup Lists(CoreTemplates, 2, MaxParams)
        /\ check_user_cfg = "none"
        /\ current_user = "alice"
        /\ become_user_cfg = "none"
        /\ success_msg = "none"
        /\ keepsOrder = TRUE
        /\ script = <<"usr", "bin", "mytool">>
     \/ /\ parameters \in Lists(PipelineTemplates, 0, MaxParams)
        /\ check_user_cfg \in {"none", "root"}
        /\ current_user \in {"root", "alice"}
        /\ become_user_cfg \in {"none", "www"}
        /\ success_msg \in {"none", "done"}
        /\ keepsOrder = TRUE
        /\ script \in ScriptPaths
     \/ /\ parameters \in Lists(OrderTemplates, 0, MaxParams)
        /\ check_user_cfg = "none"
        /\ current_user = "alice"
        /\ become_user_cfg = "www"
        /\ success_msg = "none"
        /\ keepsOrder = FALSE
        /\ script = <<"usr", "bin", "mytool">>
  /\ sudo_user = "none"
  /\ pc = "check_user"
  /\ argv = <<>>
  /\ args = NoArgs
  /\ parsed_args = NoArgs
  /\ missing = <<>>
  /\ cur = 0
  /\ value = <<>>
  /\ retries = 0
  /\ prompt_data = <<>>
  /\ typed = <<>>
  /\ parses = 0
  /\ stdout = <<>>
  /\ stderr = <<>>
  /\ runner_calls = 0
  /\ runner_vars = <<>>
  /\ runner_verbosity = -1
  /\ status = "none"
  /\ exit_code = -1
  /\ uncaught = ""
  /\ trace = <<>>


\* ----------------------------------------------------------------- helpers
\* sys.exit(code), or an exception nobody catches (Python then exits with 1).
Terminate(code, exc) ==
  /\ pc' = "done"
  /\ exit_code' = code
  /\ uncaught' = exc

Running(next) ==
  /\ pc' = next
  /\ UNCHANGED <<exit_code, uncaught>>

\* The command lines a user may type for a given surface.
ArgTexts == { <<>>, <<"0">>, <<"7">> }
Items(params) ==
  { [opt |-> params[i].name, val |-> t] :
      i \in { j \in 1..Len(params) : params[j].action \notin action_whitelist },
      t \in ArgTexts }
  \cup { [opt |-> params[i].name, val |-> <<>>] :
      i \in { j \in 1..Len(params) : params[j].action \in action_whitelist } }
  \cup { [opt |-> "verbose", val |-> <<>>], [opt |-> "help", val |-> <<>>] }
ArgvSet(params) ==
  UNION { [1..n -> Items(params)] : n \in 0..MaxArgv }

\* ------------------------------------------------------------- check_user
\* root.check_user(user): whether the process runs as that user.
root_check_user(user) == current_user = user

\* Paternoster.check_user returns (TRUE) or prints and exits with 1 (FALSE).
CheckUserIgnored == TRUE
CheckUserPasses == check_user_cfg = "none" \/ root_check_user(check_user_cfg)

CheckUser ==
  /\ pc = "check_user"
  /\ trace' = Append(trace, "check_user")
  /\ IF CheckUserPasses
       THEN Running("become_user") /\ UNCHANGED stderr
       ELSE /\ stderr' = Append(stderr, <<"only user", check_user_cfg>>)
            /\ Terminate(1, "")
  /\ UNCHANGED <<config, sudo_user, parse_state, prompt_state, stdout, runner_state>>

\* ------------------------------------------------------------ become_user
\* root.become_user(user) returns the sudo user or raises ValueError.
SudoUsers == {"alice"}
BecomeUser ==
  /\ pc = "become_user"
  /\ trace' = Append(trace, "become_user")
  /\ IF become_user_cfg = "none"
       THEN Running("build") /\ UNCHANGED <<stderr, sudo_user>>
       ELSE \E res \in SudoUsers \cup {"ValueError"} :
              IF res = "ValueError"
                THEN /\ stderr' = Append(stderr, <<"become_user failed">>)
                     /\ Terminate(1, "")
                     /\ UNCHANGED sudo_user
                ELSE /\ sudo_user' = res
                     /\ Running("build")
                     /\ UNCHANGED stderr
  /\ UNCHANGED <<config, parse_state, prompt_state, stdout, runner_state>>

\* ---------------------------------------- parse_args: _build_argparser
\* Runs before the try block of parse_args: a ValueError raised here is not
\* caught there.
BuildParser ==
  /\ pc = "build"
  /\ trace' = Append(trace, "build")
  /\ LET r == BuildArgparser(parameters) IN
       IF r[2] = "ok"
         THEN Running("parse") /\ UNCHANGED stderr
       ELSE IF r[2] = "parser.error"
         THEN /\ stderr' = Append(stderr,
                    <<"required and can't be combined with prompt", parameters[r[1]].name>>)
              /\ Terminate(2, "")
       ELSE /\ Terminate(1, r[2])
            /\ stderr' = Append(stderr, <<"Traceback", r[2]>>)
  /\ UNCHANGED <<config, sudo_user, parse_state, prompt_state, stdout, runner_state>>

\* ------------------------------------- parse_args: parser.parse_args(argv)
Parse ==
  /\ pc = "parse"
  /\ trace' = Append(trace, "parse")
  /\ \E av \in ArgvSet(parameters) :
       /\ argv' = av
       /\ parses' = parses + 1
       /\ LET out == ParseOutcome(parameters, av) IN
            CASE out = "ok" ->
                   /\ args' = Namespace(parameters, av)
                   /\ Running("prompt_for_missing")
                   /\ UNCHANGED <<stdout, stderr>>
              [] out = "help" ->
                   /\ stdout' = Append(stdout, <<"help">>)
                   /\ Terminate(0, "")
                   /\ UNCHANGED <<args, stderr>>
              [] OTHER ->
                   /\ stderr' = Append(stderr, <<"usage">>)
                   /\ Terminate(2, "")
                   /\ UNCHANGED <<args, stdout>>
  /\ UNCHANGED <<config, sudo_user, parsed_args, prompt_state, runner_state>>

\* ------------------------------------------------------ _prompt_for_missing
\* missing_params: prompt set to True or a non empty string, value None.
SelectedTruthyValue(params, ns, i) ==
  /\ KindTruthy(params[i].prompt)
  /\ KindIsBoolOrStr(params[i].prompt)
  /\ ~Truthy(ns[params[i].name])
Selected(params, ns, i) ==
  /\ KindTruthy(params[i].prompt)
  /\ KindIsBoolOrStr(params[i].prompt)
  /\ ns[params[i].name] = None

RECURSIVE MissingFrom(_, _, _)
MissingFrom(params, ns, i) ==
  IF i > Len(params) THEN <<>>
  ELSE (IF Selected(params, ns, i) THEN <<i>> ELSE <<>>) \o MissingFrom(params, ns, i + 1)
MissingParams(params, ns) == MissingFrom(params, ns, 1)

PromptForMissing ==
  /\ pc = "prompt_for_missing"
  /\ trace' = Append(trace, "prompt_for_missing")
  /\ missing' = MissingParams(parameters, args)
  /\ IF missing' = <<>>
       THEN Running("check_deps") /\ cur' = 0     \* return args
       ELSE Running("input") /\ cur' = 1
  /\ UNCHANGED <<config, sudo_user, parse_state, value, retries, prompt_data, typed,
                 stdout, stderr, runner_state>>

\* ---------------------------------------------------------------- get_input
CurrentParam == parameters[missing[cur]]

PromptText(param) == IF KindIsStr(param.prompt) THEN "custom" ELSE "Name: "
ConfirmText(param) ==
  IF KindIsStr(param.prompt_options.confirm) THEN "custom" ELSE "Please confirm: "
AskConfirmation(param) ==
  /\ KindTruthy(param.prompt_options.confirm)
  /\ KindIsBoolOrStr(param.prompt_options.confirm)

\* What get_input does to the line read: value.strip() if strip is set.
Shaped(param, t) == IF param.prompt_options.strip THEN Strip(t) ELSE t
Accepted(param, v) == v # <<>> \/ param.prompt_options.accept_empty

\* The comparison of the accepted value with the confirmation line.
ConfirmedNoCheck(v, confirmed_value) == TRUE
Confirmed(v, confirmed_value) == v = confirmed_value

ConfirmError(param) ==
  IF param.prompt_options.confirm_error = "text"
    THEN "confirm_error"
    ELSE "ERROR: input does not match its confirmation"

Line(param, kind, text, t) ==
  [name |-> param.name, kind |-> kind, text |-> text,
   no_echo |-> param.prompt_options.no_echo, raw |-> t]

\* get_input returned v: the dict comprehension stores it and moves on.
Collect(v) ==
  /\ prompt_data' = Append(prompt_data, <<CurrentParam.name, v>>)
  /\ value' = <<>>
  /\ UNCHANGED retries
  /\ IF cur < Len(missing)
       THEN cur' = cur + 1 /\ Running("input")
       ELSE cur' = cur /\ Running("reparse")

\* Paternoster.prompt(prompt, no_echo) returned a line (the while loop).
Input ==
  /\ pc = "input"
  /\ \E t \in Texts :
       LET v == Shaped(CurrentParam, t) IN
       /\ typed' = Append(typed, Line(CurrentParam, "input", PromptText(CurrentParam), t))
       /\ IF Accepted(CurrentParam, v)
            THEN IF AskConfirmation(CurrentParam)
                   THEN /\ value' = v
                        /\ Running("confirm")
                        /\ UNCHANGED <<retries, cur, prompt_data>>
                   ELSE Collect(v)
            ELSE /\ retries < MaxRetries
                 /\ retries' = retries + 1
                 /\ Running("input")
                 /\ UNCHANGED <<value, cur, prompt_data>>
  /\ UNCHANGED <<config, sudo_user, parse_state, missing, stdout, stderr,
                 runner_state, trace>>

\* Paternoster.prompt(confirmation_prompt, no_echo) returned a line.
Confirm ==
  /\ pc = "confirm"
  /\ \E t \in Texts :
       /\ typed' = Append(typed, Line(CurrentParam, "confirm", ConfirmText(CurrentParam), t))
       /\ IF Confirmed(value, t)
            THEN Collect(value) /\ UNCHANGED stderr
            ELSE \* ValueError, caught by parse_args
                 /\ stderr' = Append(stderr, <<"ValueError", ConfirmError(CurrentParam)>>)
                 /\ Terminate(3, "")
                 /\ UNCHANGED <<value, retries, cur, prompt_data>>
  /\ UNCHANGED <<config, sudo_user, parse_state, missing, stdout, runner_state, trace>>

\* KeyboardInterrupt inside Paternoster.prompt: sys.exit(3).
InterruptCode == 3
KeyboardInterrupt ==
  /\ pc \in {"input", "confirm"}
  /\ typed' = Append(typed,
       Line(CurrentParam, pc,
            IF pc = "input" THEN PromptText(CurrentParam) ELSE ConfirmText(CurrentParam),
            Interrupt))
  /\ Terminate(InterruptCode, "")
  /\ UNCHANGED <<config, sudo_user, parse_state, missing, cur, value, retries,
                 prompt_data, stdout, stderr, runner_state, trace>>


\* ------------------------------- _prompt_for_missing: the second parse
Perms(n) == { f \in [1..n -> 1..n] : \A i, j \in 1..n : f[i] = f[j] => i = j }

\* Iteration orders of a dict with n keys inserted in the order 1..n:
\* insertion order where the interpreter keeps it, any order otherwise.
DictOrders(n) == IF keepsOrder THEN { [i \in 1..n |-> i] } ELSE Perms(n)

\* argv.append('--name'); argv.append(value) for every item of prompt_data
AppendedStripped(data, order) ==
  [k \in 1..Len(data) |-> [opt |-> data[order[k]][1], val |-> Strip(data[order[k]][2])]]
Appended(data, order) ==
  [k \in 1..Len(data) |-> [opt |-> data[order[k]][1], val |-> data[order[k]][2]]]

Reparse ==
  /\ pc = "reparse"
  /\ \E order \in DictOrders(Len(prompt_data)) :
       LET av == argv \o Appended(prompt_data, order) IN
       /\ argv' = av
       /\ parses' = parses + 1
       /\ IF ParseOutcome(parameters, av) = "ok"
            THEN /\ args' = Namespace(parameters, av)
                 /\ Running("check_deps")
                 /\ UNCHANGED stderr
            ELSE /\ stderr' = Append(stderr, <<"usage">>)
                 /\ Terminate(2, "")
                 /\ UNCHANGED args
  /\ UNCHANGED <<config, sudo_user, parsed_args, prompt_state, stdout, runner_state, trace>>

\* -------------------------------------------------- _check_arg_dependencies
GetAttr(ns, name) == IF name \in DOMAIN ns THEN ns[name] ELSE None

DependencyUnmet(params, ns, i) ==
  LET param_given == Truthy(GetAttr(ns, params[i].name))
      dependency_given ==
        \/ params[i].depends_on = "none"
        \/ Truthy(GetAttr(ns, params[i].depends_on))
  IN  param_given /\ ~dependency_given

Violators(params, ns) == { i \in 1..Len(params) : DependencyUnmet(params, ns, i) }
FirstViolator(params, ns) ==
  CHOOSE i \in Violators(params, ns) : \A j \in Violators(params, ns) : i <= j

CheckArgDependencies ==
  /\ pc = "check_deps"
  /\ trace' = Append(trace, "check_deps")
  /\ IF Violators(parameters, args) = {}
       THEN \* self._parsed_args = args; parse_args returns, and the locals
            \* of it and of the prompting it ran are gone
            /\ parsed_args' = args
            /\ argv' = <<>>
            /\ args' = NoArgs
            /\ missing' = <<>> /\ cur' = 0 /\ value' = <<>> /\ retries' = 0
            /\ prompt_data' = <<>> /\ typed' = <<>>
            /\ Running("execute")
            /\ UNCHANGED stderr
       ELSE LET p == parameters[FirstViolator(parameters, args)] IN
            /\ stderr' = Append(stderr, <<"requires", p.name, p.depends_on>>)
            /\ Terminate(2, "")
            /\ UNCHANGED <<parsed_args, argv, args, prompt_state>>
  /\ UNCHANGED <<config, sudo_user, parses, stdout, runner_state>>

\* ---------------------------------------------------- _get_runner_variables
\* os.path.basename(sys.argv[0])
Basename(path) == path[Len(path)]

\* vars(self._parsed_args): argparse sets the defaults action by action, so
\* the keys are inserted in declaration order, verbose last.
InsertionOrder(params) ==
  [i \in 1..(Len(params) + 1) |->
     IF i <= Len(params) THEN params[i].name ELSE "verbose"]

ParamEntries(params, ns, order) ==
  [k \in 1..(Len(params) + 1) |->
     <<<<"param_", InsertionOrder(params)[order[k]]>>,
       ns[InsertionOrder(params)[order[k]]]>>]

RunnerVariablesNoSudo(path, ns, order) ==
  << <<<<"script_name">>, StrV(<<Basename(path)>>)>> >>
  \o ParamEntries(parameters, ns, order)
RunnerVariables(path, ns, order) ==
  (IF sudo_user # "none"
     THEN << <<<<"sudo_user">>, StrV(<<sudo_user>>)>> >>
     ELSE <<>>)
  \o << <<<<"script_name">>, StrV(<<Basename(path)>>)>> >>
  \o ParamEntries(parameters, ns, order)

\* ------------------------------------------------------------------ execute
\* self._runner.run(variables, verbosity) returns a boolean.
PrintsSuccess(st) == st /\ success_msg # "none"

Execute ==
  /\ pc = "execute"
  /\ trace' = Append(trace, "execute")
  /\ \E st \in BOOLEAN, order \in DictOrders(Len(parameters) + 1) :
       /\ runner_vars' = RunnerVariables(script, parsed_args, order)
       /\ runner_verbosity' = parsed_args["verbose"][2]
       /\ runner_calls' = runner_calls + 1
       /\ status' = IF st THEN "True" ELSE "False"
       /\ stdout' = IF PrintsSuccess(st) THEN Append(stdout, <<success_msg>>) ELSE stdout
  /\ Running("exit")
  /\ UNCHANGED <<config, sudo_user, parse_state, prompt_state, stderr>>

\* sys.exit(0 if status else 1)
ExitStatusInverted(st) == IF st = "True" THEN 1 ELSE 0
ExitStatus(st) == IF st = "True" THEN 0 ELSE 1

Exit ==
  /\ pc = "exit"
  /\ trace' = Append(trace, "exit")
  /\ Terminate(ExitStatus(status), "")
  /\ UNCHANGED <<config, sudo_user, parse_state, prompt_state, stdout, stderr,
                 runner_state>>

\* --------------------------------------------------------------------- auto
Next ==
  \/ CheckUser
  \/ BecomeUser
  \/ BuildParser
  \/ Parse
  \/ PromptForMissing
  \/ Input
  \/ Confirm
  \/ KeyboardInterrupt
  \/ Reparse
  \/ CheckArgDependencies
  \/ Execute
  \/ Exit

Spec == Init /\ [][Next]_vars


\* ================================================================== claims
\* Vocabulary of the claims, stated on the declarations and on what can be
\* observed of a run, not on the operators above.
StageDone(stage) == \E i \in 1..Len(trace) : trace[i] = stage
Stages ==
  <<"check_user", "become_user", "build", "parse", "prompt_for_missing",
    "check_deps", "execute", "exit">>
IsPrefix(a, b) == Len(a) <= Len(b) /\ \A i \in 1..Len(a) : a[i] = b[i]

ValueConsuming(p) == p.action \notin action_whitelist
RawText(p) == ValueConsuming(p) /\ p.type = TypeStr
WellTyped(p) ==
  /\ p.type # TypeUnknown
  /\ ValueConsuming(p) => p.type \in {TypeInt, TypeRestricted}
PromptSet(p) == p.prompt \in {"True", "text", "int"}
PromptConflict(p) == (p.required \/ p.positional) /\ PromptSet(p)
WellDeclared(p) ==
  /\ WellTyped(p)
  /\ ~PromptConflict(p)
  /\ ~ValueConsuming(p) => p.type = TypeAbsent
  /\ ~(p.positional /\ p.required)
First(S) == CHOOSE i \in S : \A j \in S : i <= j

NothingParsed ==
  /\ parses = 0 /\ argv = <<>> /\ args = NoArgs /\ parsed_args = NoArgs
  /\ typed = <<>> /\ runner_calls = 0

\* ---- C1
RawTextParams == { i \in 1..Len(parameters) : RawText(parameters[i]) }

\* C1 as stated: whenever some parameter consumes a value and has the raw text
\* type, building the parser fails with the policy violation, nothing is
\* parsed and the runner is not invoked.
C1_Claim ==
  (RawTextParams # {} /\ StageDone("build")) =>
     /\ pc = "done"
     /\ uncaught = "ValueError:restricted_str"
     /\ NothingParsed

\* C1 amended: with such a parameter, building the parser always fails before
\* anything is parsed; the failure is the policy violation when every
\* parameter declared before the first such one is declared correctly.
C1_Amended ==
  (RawTextParams # {} /\ StageDone("build")) =>
     /\ pc = "done"
     /\ exit_code \in {1, 2}
     /\ NothingParsed
     /\ (\A j \in 1..(First(RawTextParams) - 1) : WellDeclared(parameters[j]))
          => uncaught = "ValueError:restricted_str" /\ exit_code = 1

C1_Witness ==
  /\ pc = "done"
  /\ Len(parameters) = 2
  /\ WellDeclared(parameters[1])
  /\ RawText(parameters[2])
  /\ uncaught = "ValueError:restricted_str"

\* ---- C8
RequiredPromptParams ==
  { i \in 1..Len(parameters) : parameters[i].required /\ PromptSet(parameters[i]) }
ConflictReported(i) ==
  /\ exit_code = 2
  /\ uncaught = ""
  /\ stderr = << <<"required and can't be combined with prompt", parameters[i].name>> >>

\* C8 as stated: whenever some parameter is required and has a prompt,
\* building the parser fails through the parser's error path (status 2, a
\* message on the error stream); nothing is parsed, prompted or run.
C8_Claim ==
  (RequiredPromptParams # {} /\ StageDone("build")) =>
     /\ pc = "done"
     /\ exit_code = 2
     /\ uncaught = ""
     /\ \E i \in RequiredPromptParams : ConflictReported(i)
     /\ NothingParsed

\* C8 amended: with such a parameter, building the parser always fails before
\* anything is parsed, prompted or run; it fails through the parser's error
\* path, naming the first such parameter, when that parameter's type passes
\* the type checks and every parameter before it is declared correctly.
C8_Amended ==
  (RequiredPromptParams # {} /\ StageDone("build")) =>
     /\ pc = "done"
     /\ exit_code \in {1, 2}
     /\ NothingParsed
     /\ ( /\ WellTyped(parameters[First(RequiredPromptParams)])
          /\ \A j \in 1..(First(RequiredPromptParams) - 1) : WellDeclared(parameters[j]) )
          => ConflictReported(First(RequiredPromptParams))

C8_Witness ==
  /\ pc = "done"
  /\ Len(parameters) = 2
  /\ WellDeclared(parameters[1])
  /\ 2 \in RequiredPromptParams
  /\ ConflictReported(2)

\* ---- C3
Mismatch == check_user_cfg # "none" /\ current_user # check_user_cfg

\* C3: the stages of auto() are entered in the fixed order, each only after
\* every earlier one succeeded, and what a stage does is seen only after it
\* was entered; a failed identity check ends the run with status 1 before any
\* identity switch, parser construction, parsing, prompt or runner call.
C3_StageOrder ==
  /\ IsPrefix(trace, Stages)
  /\ (Mismatch /\ trace # <<>>) =>
        /\ pc = "done" /\ exit_code = 1 /\ trace = <<"check_user">>
        /\ sudo_user = "none" /\ NothingParsed
  /\ StageDone("become_user") => ~Mismatch
  /\ StageDone("build") => (become_user_cfg # "none" <=> sudo_user # "none")
  /\ StageDone("parse") => \A i \in 1..Len(parameters) : WellDeclared(parameters[i])
  /\ StageDone("prompt_for_missing") => parses >= 1
  /\ StageDone("check_deps") => Len(prompt_data) = Len(missing) /\ parses >= 1
  /\ StageDone("execute") => parsed_args # NoArgs /\ stderr = <<>>
  /\ pc # "done" => stderr = <<>> /\ uncaught = "" /\ exit_code = -1
  /\ StageDone("exit") => runner_calls = 1 /\ status # "none"
  /\ sudo_user # "none" => StageDone("become_user")
  /\ parses > 0 => StageDone("parse")
  /\ typed # <<>> => StageDone("prompt_for_missing")
  /\ parsed_args # NoArgs => StageDone("check_deps")
  /\ runner_calls > 0 => StageDone("execute")
  /\ (exit_code # -1 /\ runner_calls > 0) => StageDone("exit")

C3_Witness ==
  /\ pc = "done"
  /\ check_user_cfg = "root" /\ current_user = "alice"
  /\ become_user_cfg # "none"
  /\ exit_code = 1
  /\ stderr = << <<"only user", "root">> >>

\* ---- C4
SuccessPrinted == \E i \in 1..Len(stdout) : stdout[i] = <<"done">>

\* C4: the runner is invoked at most once, exactly once when the run reaches
\* it; when it returned true the run exits with 0 and the success message is
\* printed iff one is configured; when it returned false the run exits with
\* 1 and no success message is printed.
C4_RunnerOutcome ==
  /\ runner_calls <= 1
  /\ StageDone("execute") => runner_calls = 1
  /\ runner_calls = 0 => ~SuccessPrinted /\ status = "none"
  /\ runner_calls = 1 =>
        /\ status \in {"True", "False"}
        /\ status = "True"  => (SuccessPrinted <=> success_msg # "none")
        /\ status = "False" => ~SuccessPrinted
        /\ pc = "done" => exit_code = (IF status = "True" THEN 0 ELSE 1)

C4_Witness ==
  /\ pc = "done"
  /\ runner_calls = 1
  /\ status = "False"
  /\ success_msg = "done"
  /\ exit_code = 1

\* ---- C5
PrivilegeSwitched == become_user_cfg # "none"
PrefixLen == IF PrivilegeSwitched THEN 2 ELSE 1
VarNames == [i \in 1..Len(runner_vars) |-> runner_vars[i][1]]
DeclarationOrder ==
  (IF PrivilegeSwitched THEN << <<"sudo_user">> >> ELSE <<>>)
  \o << <<"script_name">> >>
  \o [i \in 1..Len(parameters) |-> <<"param_", parameters[i].name>>]
  \o << <<"param_", "verbose">> >>

\* C5 as stated: the names handed to the runner are sudo_user (iff a
\* privilege switch occurred), script_name, then one param_ entry per declared
\* parameter in declaration order, then param_verbose.
C5_Claim == runner_calls = 1 => VarNames = DeclarationOrder

\* C5 amended: sudo_user (iff a privilege switch occurred) and script_name
\* (the base name of the script) come first; then exactly one param_ entry
\* per declared parameter and for verbose, each with its parsed value, in the
\* namespace's iteration order: declaration order with param_verbose last
\* where dicts keep insertion order.
C5_Amended ==
  runner_calls = 1 =>
    /\ Len(runner_vars) = PrefixLen + Len(parameters) + 1
    /\ PrivilegeSwitched => runner_vars[1] = << <<"sudo_user">>, StrV(<<"alice">>) >>
    /\ runner_vars[PrefixLen] = << <<"script_name">>, StrV(<<"mytool">>) >>
    /\ \A i \in 1..Len(runner_vars) : VarNames[i] = <<"sudo_user">> => PrivilegeSwitched
    /\ \A d \in Dests(parameters) :
         \E i \in (PrefixLen + 1)..Len(runner_vars) :
            /\ runner_vars[i] = << <<"param_", d>>, parsed_args[d] >>
            /\ \A j \in 1..Len(runner_vars) : VarNames[j] = <<"param_", d>> => j = i
    /\ keepsOrder => VarNames = DeclarationOrder
    /\ runner_verbosity = parsed_args["verbose"][2]

C5_Witness ==
  /\ runner_calls = 1
  /\ Len(parameters) = 2
  /\ PrivilegeSwitched
  /\ ~keepsOrder
  /\ VarNames # DeclarationOrder
  /\ parsed_args["a"] # None

\* ---- C2
\* The namespace _check_arg_dependencies looked at.
Checked == IF parsed_args # NoArgs THEN parsed_args ELSE args
\* A value is present when the option was given: not the None of an option
\* left out, not the False of a flag left out.
Present(name) ==
  /\ name \in DOMAIN Checked
  /\ Checked[name] \notin {None, BoolV(FALSE)}
DependencyError(i) ==
  /\ pc = "done" /\ exit_code = 2 /\ uncaught = ""
  /\ stderr = << <<"requires", parameters[i].name, parameters[i].depends_on>> >>
  /\ parsed_args = NoArgs /\ runner_calls = 0

\* C2: once the dependency check ran, a parameter whose value is present
\* while the value of its depends_on is absent has produced a usage error
\* naming both and exit status 2, with no parsed result stored and no runner
\* call; when both were supplied no dependency error names the pair; a
\* parameter without depends_on is never named by a dependency error.
C2_Claim ==
  StageDone("check_deps") =>
    /\ (\E i \in 1..Len(parameters) :
           /\ parameters[i].depends_on # "none"
           /\ Present(parameters[i].name) /\ ~Present(parameters[i].depends_on))
         => \E i \in 1..Len(parameters) : DependencyError(i)
    /\ \A i \in 1..Len(parameters) :
         DependencyError(i) =>
           /\ parameters[i].depends_on # "none"
           /\ ~(Present(parameters[i].name) /\ Present(parameters[i].depends_on))

\* The run `--a 0 --b 7` of a script whose b depends on a.
C2_FailingRun ==
  /\ Len(parameters) = 2
  /\ parameters[2].depends_on = "a"
  /\ pc = "done"
  /\ args = [a |-> IntV(0), b |-> IntV(7), verbose |-> IntV(0)]
  /\ stderr = << <<"requires", "b", "a">> >>
  /\ exit_code = 2

\* ---- C7
LastTyped == typed[Len(typed)]
ConfirmationRead ==
  /\ Len(typed) >= 2
  /\ LastTyped.kind = "confirm"
  /\ LastTyped.raw # Interrupt
FirstInput == typed[Len(typed) - 1]
Prompted == parameters[ParamOf(parameters, LastTyped.name)]
Collected(name) == \E k \in 1..Len(prompt_data) : prompt_data[k][1] = name
MismatchReported ==
  /\ pc = "done" /\ exit_code = 3
  /\ stderr = << <<"ValueError", ConfirmError(Prompted)>> >>

\* C7: when a confirmation was read, the two raw inputs are compared for
\* exact equality: equal inputs make get_input return the value, different
\* inputs raise the validation failure with the configured or default
\* mismatch message, whatever the other prompt options are.
C7_Claim ==
  ConfirmationRead =>
    /\ FirstInput.kind = "input" /\ FirstInput.name = LastTyped.name
    /\ AskConfirmation(Prompted)
    /\ FirstInput.raw = LastTyped.raw =>
         Collected(LastTyped.name) /\ exit_code # 3
    /\ FirstInput.raw # LastTyped.raw => MismatchReported

\* The user types " 7" twice at a prompt with strip and confirm.
C7_FailingRun ==
  /\ ConfirmationRead
  /\ Prompted.prompt_options.strip
  /\ FirstInput.raw = <<" ", "7">>
  /\ LastTyped.raw = <<" ", "7">>
  /\ MismatchReported

\* ---- C6
\* _prompt_for_missing is the last stage entered.
Prompting == trace # <<>> /\ trace[Len(trace)] = "prompt_for_missing"
Reparsed == Prompting /\ parses = 2
\* The command line of the first parse.
FirstArgv ==
  IF parses = 2 THEN SubSeq(argv, 1, Len(argv) - Len(prompt_data)) ELSE argv
\* The raw line get_input accepted for a parameter: the last one read at its
\* input prompt.
AcceptedLine(name) ==
  CHOOSE k \in 1..Len(typed) :
    /\ typed[k].name = name /\ typed[k].kind = "input"
    /\ \A j \in 1..Len(typed) :
         (typed[j].name = name /\ typed[j].kind = "input") => j <= k
AcceptedRaw(name) == typed[AcceptedLine(name)].raw
ExpectedText(name) ==
  IF parameters[ParamOf(parameters, name)].prompt_options.strip
    THEN Strip(AcceptedRaw(name)) ELSE AcceptedRaw(name)
\* The command line that supplies the prompted parameters as options.
CliRaw ==
  FirstArgv \o [k \in 1..Len(prompt_data) |->
     [opt |-> argv[Len(FirstArgv) + k].opt,
      val |-> AcceptedRaw(argv[Len(FirstArgv) + k].opt)]]
CliExpected ==
  FirstArgv \o [k \in 1..Len(prompt_data) |->
     [opt |-> argv[Len(FirstArgv) + k].opt,
      val |-> ExpectedText(argv[Len(FirstArgv) + k].opt)]]
\* The run ended its parsing as the parse of av does.
EndsAs(cli) ==
  LET av == cli IN
  IF ParseOutcome(parameters, av) = "ok"
    THEN pc = "check_deps" /\ stderr = <<>> /\ args = Namespace(parameters, av)
    ELSE pc = "done" /\ exit_code = 2 /\ stderr = << <<"usage">> >>

\* C6 as stated: the run in which the raw texts were typed at the prompts
\* ends with the same validated values, or the same rejection, as the run
\* that supplies the same raw texts as --name options.
C6_Claim == Reparsed => EndsAs(CliRaw)

\* C6 amended: the text handed to the second parse is the accepted line,
\* stripped when the strip option is set; the run ends as the run that
\* supplies that text as a --name option, through the same type validation.
C6_Amended ==
  Reparsed =>
    /\ EndsAs(CliExpected)
    /\ \A k \in 1..Len(prompt_data) :
         /\ prompt_data[k][2] = ExpectedText(prompt_data[k][1])
         /\ \E j \in (Len(FirstArgv) + 1)..Len(argv) :
              argv[j] = [opt |-> prompt_data[k][1], val |-> prompt_data[k][2]]
         /\ pc = "check_deps" =>
              /\ TypeAccepts(ConvertType(parameters[ParamOf(parameters, prompt_data[k][1])]),
                             prompt_data[k][2])
              /\ args[prompt_data[k][1]] =
                   TypeValue(ConvertType(parameters[ParamOf(parameters, prompt_data[k][1])]),
                             prompt_data[k][2])

C6_Witness ==
  /\ Reparsed
  /\ pc = "check_deps"
  /\ Len(prompt_data) = 1
  /\ parameters[1].prompt_options.strip
  /\ AcceptedRaw("a") = <<" ", "7">>
  /\ args["a"] = StrV(<<"7">>)
  /\ ParseOutcome(parameters, CliRaw) = "error"

\* ---- C9
Interrupted == typed # <<>> /\ LastTyped.raw = Interrupt
\* The confirmation read differs from the value get_input holds.
Mismatched ==
  /\ ConfirmationRead
  /\ LastTyped.raw #
       (IF Prompted.prompt_options.strip THEN Strip(FirstInput.raw) ELSE FirstInput.raw)
ShortCircuited ==
  /\ pc = "done" /\ exit_code = 3 /\ uncaught = ""
  /\ Prompting /\ parses = 1
  /\ parsed_args = NoArgs /\ runner_calls = 0 /\ stdout = <<>>
  /\ ~Collected(LastTyped.name)

\* C9: a keyboard interrupt at any prompt (first input, retry, confirmation)
\* ends the run with status 3 and nothing on the error stream; a
\* confirmation mismatch is reported on the error stream and ends the run
\* with status 3; in both cases no further prompt is shown, no second parse
\* and no dependency check run, no parsed result is stored and the runner is
\* never invoked; status 3 has no other cause.
C9_PromptAbort ==
  /\ Interrupted => ShortCircuited /\ stderr = <<>>
  /\ Mismatched => ShortCircuited /\ MismatchReported
  /\ \A k \in 1..Len(typed) : typed[k].raw = Interrupt => k = Len(typed)
  /\ exit_code = 3 => Interrupted \/ Mismatched

C9_Witness ==
  /\ Mismatched
  /\ Len(parameters) = 2
  /\ Len(missing) = 2
  /\ LastTyped.name = "a"
  /\ exit_code = 3

\* ---- C10
\* prompt is True or a non-empty text, and the first parse left the field None.
ToPrompt(first, i) ==
  /\ parameters[i].prompt \in {"True", "text"}
  /\ first[parameters[i].name] = None
SuppliedOrNoPrompt(i) ==
  \/ Occurrences(FirstArgv, parameters[i].name) # {}
  \/ parameters[i].prompt \in {"absent", "False", "empty"}
PromptedNames == { typed[k].name : k \in 1..Len(typed) }

\* C10: after the first parse exactly the parameters whose prompt is a
\* non-empty boolean-or-text value and whose parsed field is None are
\* selected, in declaration order; a parameter supplied on the command line
\* or without prompt is never prompted; with nothing selected no prompt is
\* shown, no second parse happens and the parsed result is the first one;
\* otherwise one value per selected parameter is collected and the arguments
\* are parsed exactly once more.
C10_Selection ==
  /\ parses <= 2
  /\ typed # <<>> => StageDone("prompt_for_missing")
  /\ Prompting =>
       LET first == Namespace(parameters, FirstArgv) IN
       /\ \A i \in 1..Len(parameters) :
            /\ ToPrompt(first, i) <=> \E k \in 1..Len(missing) : missing[k] = i
            /\ SuppliedOrNoPrompt(i) => parameters[i].name \notin PromptedNames
       /\ \A k \in 1..(Len(missing) - 1) : missing[k] < missing[k + 1]
       /\ PromptedNames \subseteq { parameters[missing[k]].name : k \in 1..Len(missing) }
       /\ missing = <<>> =>
            /\ typed = <<>> /\ prompt_data = <<>> /\ parses = 1
            /\ pc = "check_deps" /\ args = first
       /\ (missing # <<>> /\ pc \in {"reparse", "check_deps"}) =>
            /\ Len(prompt_data) = Len(missing)
            /\ \A k \in 1..Len(missing) : prompt_data[k][1] = parameters[missing[k]].name
            /\ parses = (IF pc = "reparse" THEN 1 ELSE 2)

C10_Witness ==
  /\ Prompting
  /\ pc = "check_deps"
  /\ Len(parameters) = 2
  /\ parses = 2
  /\ missing = <<2>>
  /\ parameters[1].prompt = "True"
  /\ Occurrences(FirstArgv, "a") # {}

============================================================================
